---- MODULE Spec2Model ----
(***************************************************************************)
(* Model of balance_lqr_controller.cpp: the LQR balance controller node.   *)
(*                                                                         *)
(* Numbers.  The program computes in float/double.  The model computes in  *)
(* fixed point, every product and quotient rounded to nearest (ties to     *)
(* even, as IEEE-754 does):                                                *)
(*   angles, angular velocities, pwm targets : 1/10000 rad  (RadUnit)      *)
(*   joystick axes, command gains            : 1/100        (Centi)        *)
(*   LQR gains control_k                     : 1/100                       *)
(*   main_loop (period)                      : 1/100 s                     *)
(*   motor_increment                         : 1/1000000    (exact sum)    *)
(*   encoder raw values, motor setpoints     : ticks                       *)
(*   sleep argument                          : whole seconds               *)
(* An axis times a command gain is therefore already in RadUnit.           *)
(***************************************************************************)
EXTENDS Integers, Sequences, FiniteSets, TLC

Centi == 10 * 10
RadUnit == Centi * Centi

\* M_PI * 2 in RadUnit (6.2832 rad).
TwoPi == 62832
\* Encoder counts per revolution.
CPR == 8192

\* Bounds of the exploration.
MaxCycles == 4
MaxMsgs == 3

Abs(x) == IF x < 0 THEN -x ELSE x

\* a / b for b > 0, rounded to nearest, ties to even.
RoundDiv(a, b) ==
  LET q == a \div b
      r == a % b
  IN  IF 2 * r < b THEN q
      ELSE IF 2 * r > b THEN q + 1
      ELSE IF q % 2 = 0 THEN q ELSE q + 1

\* a * b / c for even b > 0 and c > 0, rounded as RoundDiv, without forming a * b.
MulDiv(a, b, c) == (a \div c) * b + RoundDiv((a % c) * b, c)

cprToRad(cpr_value) == RoundDiv(cpr_value * TwoPi, CPR)

radToCpr(rad_value) == MulDiv(rad_value, CPR, TwoPi)

\* float control_k[6], in 1/100.
control_k == <<-45311, -4104, 1517, -616, -447, -431>>

\* float target_w[6] as constructed: {0.1415, 0, 0, 0, 0, 0}.
target_w_init == <<1415, 0, 0, 0, 0, 0>>

\* static vel_cmd velocity_cmd{0, 0, 0.05, 3}.
velocity_cmd_init == [forward |-> 0, turn |-> 0, forward_gain |-> 5, turn_gain |-> 300]

\* static orientation x{.0, .0, .0, .2}: the fourth member is d_roll, the rest
\* of the aggregate is zero-initialized.
orientation_init ==
  [roll |-> 0, pitch |-> 0, yaw |-> 0, d_roll |-> 2000, d_pitch |-> 0, d_yaw |-> 0, dt |-> 0]

encoders_init ==
  [position_left |-> 0, position_right |-> 0, velocity_left |-> 0, velocity_right |-> 0]

inner_wheel_init == [position |-> 0, velocity |-> 0]

\* static float main_loop = 0.08, in 1/100 s.
main_loop_init == 8

(***************************************************************************)
(* Inbound messages the environment may deliver.                           *)
(***************************************************************************)
\* sensor_msgs/Joy: axes[0] is turn, axes[1] is forward (Centi).
JoyMsgs == { [axes |-> <<0, 100>>], [axes |-> <<100, -100>>] }

\* balance_robot_msgs/Orientation, used by both orientation topics (RadUnit).
OrientationMsgs ==
  { [roll |-> 1415, pitch |-> 200, yaw |-> 50, d_roll |-> 0, d_pitch |-> -100,
     d_yaw |-> 10, dt |-> 1],
    [roll |-> -300, pitch |-> 0, yaw |-> 0, d_roll |-> 700, d_pitch |-> 0,
     d_yaw |-> 0, dt |-> 2] }

\* balance_robot_msgs/Encoders: raw ticks; encoder0 is the right wheel,
\* encoder1 the left wheel.
EncodersMsgs ==
  { [encoder0 |-> [position |-> 16384, velocity |-> 8192],
     encoder1 |-> [position |-> -16384, velocity |-> -8192]],
    [encoder0 |-> [position |-> 1000, velocity |-> 100],
     encoder1 |-> [position |-> -900, velocity |-> 300]] }

\* rcl_interfaces/ParameterEvent: the changed_parameters list (values in 1/100).
ParameterEvents ==
  { << [name |-> "vel_cmd.forward_gain", value |-> 350] >>,
    << [name |-> "vel_cmd.turn_gain", value |-> 100] >>,
    << [name |-> "main_loop", value |-> 150] >>,
    << [name |-> "vel_lowpass", value |-> 1000],
       [name |-> "main_loop", value |-> 250] >> }

\* The message the zero-initialized encoders_measurement corresponds to.
encoders_msg_zero ==
  [encoder0 |-> [position |-> 0, velocity |-> 0],
   encoder1 |-> [position |-> 0, velocity |-> 0]]

Entities == {"cmd", "imu", "ow", "enc"}

VARIABLES
  pc,                           \* position of main's loop
  ok,                           \* what rclcpp::ok() returns
  velocity_cmd,
  orientation_imu_measurement,
  orientation_ow_measurement,
  encoders_measurement,
  combined_inner_wheel,
  main_loop,
  motor_increment,
  velocity_lp,
  state_x,
  target_w,
  current_stamp,
  pwm_target,
  pwm_target_left,
  pwm_target_right,
  balance_pub,                  \* balance/controller: count and last message
  motors_pub,                   \* balance/motors: count and last message
  sleep_arg,                    \* seconds handed to the last sleep() call
  now,                          \* ros_clock reading
  cycles,                       \* loop iterations started
  delivered,                    \* inbound messages dispatched so far
  ver,                          \* history: messages received per entity
  seen,                         \* history: what the running cycle has read
  trace,                        \* history: the steps of the running cycle
  run,                          \* history: current run of unclamped cycles
  enc_raw                       \* history: the last Encoders message received

store == <<velocity_cmd, orientation_imu_measurement, orientation_ow_measurement,
           encoders_measurement, combined_inner_wheel, main_loop>>
locals == <<motor_increment, velocity_lp, state_x, target_w, current_stamp,
            pwm_target, pwm_target_left, pwm_target_right>>
outputs == <<balance_pub, motors_pub, sleep_arg>>
history == <<ver, seen, trace, run, enc_raw>>
vars == <<pc, ok, store, locals, outputs, now, cycles, delivered, history>>

seen_init ==
  [cmd |-> {}, imu |-> {}, ow |-> {}, enc |-> {},
   forward_gain |-> {}, turn_gain |-> {}, period |-> {}]

Init ==
  /\ pc = "check"
  /\ ok = TRUE
  /\ velocity_cmd = velocity_cmd_init
  /\ orientation_imu_measurement = orientation_init
  /\ orientation_ow_measurement = orientation_init
  /\ encoders_measurement = encoders_init
  /\ combined_inner_wheel = inner_wheel_init
  /\ main_loop = main_loop_init
  /\ motor_increment = 0
  /\ velocity_lp = 0
  /\ state_x = <<0, 0, 0, 0, 0, 0>>
  /\ target_w = target_w_init
  /\ current_stamp = 0
  /\ pwm_target = 0
  /\ pwm_target_left = 0
  /\ pwm_target_right = 0
  /\ balance_pub = [n |-> 0, msg |-> <<>>]
  /\ motors_pub = [n |-> 0, msg |-> <<>>]
  /\ sleep_arg = 0
  /\ now = 0
  /\ cycles = 0
  /\ delivered = 0
  /\ ver = [e \in Entities |-> 0]
  /\ seen = seen_init
  /\ trace = <<>>
  /\ run = [n |-> 0, base |-> 0, u |-> 0]
  /\ enc_raw = encoders_msg_zero

(***************************************************************************)
(* Subscription callbacks.  They run on the thread that calls              *)
(* rclcpp::spin_some(node), i.e. only while main is inside line 245.       *)
(***************************************************************************)
\* Fault variant: the callbacks run on a listener thread of their own.
InAnyStep == TRUE

InSpinSome == pc = "spin"

Dispatch(e) ==
  /\ InSpinSome
  /\ delivered < MaxMsgs
  /\ delivered' = delivered + 1
  /\ ver' = IF e \in Entities THEN [ver EXCEPT ![e] = @ + 1] ELSE ver
  /\ trace' = Append(trace, "dispatch")
  /\ UNCHANGED <<pc, ok, locals, outputs, now, cycles, seen, run>>

\* Every callback but the encoders one leaves the raw-encoder history alone.
KeepRaw == UNCHANGED enc_raw

\* Fault variant: the turn axis stored into the neighbouring member turn_gain.
joy_cmd_gain(cmd, msg) ==
  [cmd EXCEPT !.forward = msg.axes[2], !.turn_gain = msg.axes[1]]

joy_cmd(cmd, msg) == [cmd EXCEPT !.forward = msg.axes[2], !.turn = msg.axes[1]]

joy_topic_callback ==
  \E msg \in JoyMsgs :
    /\ Dispatch("cmd")
    /\ velocity_cmd' = joy_cmd(velocity_cmd, msg)
    /\ KeepRaw
    /\ UNCHANGED <<orientation_imu_measurement, orientation_ow_measurement,
                   encoders_measurement, combined_inner_wheel, main_loop>>

orientation_from(msg) ==
  [roll |-> msg.roll, pitch |-> msg.pitch, yaw |-> msg.yaw, d_roll |-> msg.d_roll,
   d_pitch |-> msg.d_pitch, d_yaw |-> msg.d_yaw, dt |-> msg.dt]

orientation_imu_topic_callback ==
  \E msg \in OrientationMsgs :
    /\ Dispatch("imu")
    /\ orientation_imu_measurement' = orientation_from(msg)
    /\ KeepRaw
    /\ UNCHANGED <<velocity_cmd, orientation_ow_measurement, encoders_measurement,
                   combined_inner_wheel, main_loop>>

orientation_ow_topic_callback ==
  \E msg \in OrientationMsgs :
    /\ Dispatch("ow")
    /\ orientation_ow_measurement' = orientation_from(msg)
    /\ KeepRaw
    /\ UNCHANGED <<velocity_cmd, orientation_imu_measurement, encoders_measurement,
                   combined_inner_wheel, main_loop>>

encoders_from(msg) ==
  [position_left |-> cprToRad(msg.encoder1.position * (-1)),
   position_right |-> cprToRad(msg.encoder0.position),
   velocity_left |-> cprToRad(msg.encoder1.velocity * (-1)),
   velocity_right |-> cprToRad(msg.encoder0.velocity)]

\* Fault variant: the combined velocity taken from the right wheel alone.
combined_from_right(enc) ==
  [position |-> enc.position_right, velocity |-> enc.velocity_right]

combined_from(enc) ==
  [position |-> enc.position_right,
   velocity |-> RoundDiv(enc.velocity_right + enc.velocity_left, 2)]

encoders_topic_callback ==
  \E msg \in EncodersMsgs :
    /\ Dispatch("enc")
    /\ encoders_measurement' = encoders_from(msg)
    /\ enc_raw' = msg
    /\ combined_inner_wheel' = combined_from(encoders_from(msg))
    /\ UNCHANGED <<velocity_cmd, orientation_imu_measurement,
                   orientation_ow_measurement, main_loop>>

\* One iteration of the for loop over event->changed_parameters, on the pair
\* c = [cmd |-> velocity_cmd, period |-> main_loop].
param_apply(c, parameter) ==
  LET c1 == IF parameter.name = "vel_cmd.forward_gain"
              THEN [c EXCEPT !.cmd.forward_gain = parameter.value] ELSE c
      c2 == IF parameter.name = "vel_cmd.turn_gain"
              THEN [c1 EXCEPT !.cmd.turn_gain = parameter.value] ELSE c1
  IN  IF parameter.name = "main_loop"
        THEN [c2 EXCEPT !.period = parameter.value] ELSE c2

RECURSIVE param_fold(_, _)
param_fold(c, changed_parameters) ==
  IF changed_parameters = <<>> THEN c
  ELSE param_fold(param_apply(c, Head(changed_parameters)), Tail(changed_parameters))

param_change_callback ==
  \E event \in ParameterEvents :
    LET c == param_fold([cmd |-> velocity_cmd, period |-> main_loop], event)
    IN  /\ Dispatch("param")
        /\ velocity_cmd' = c.cmd
        /\ KeepRaw
        /\ main_loop' = c.period
        /\ UNCHANGED <<orientation_imu_measurement, orientation_ow_measurement,
                       encoders_measurement, combined_inner_wheel>>

(***************************************************************************)
(* main: the control loop, one action per step of the loop body.           *)
(***************************************************************************)
\* Fault variant: while (true).
LoopForever(flag) == TRUE

\* while (rclcpp::ok())
LoopCondition(flag) == flag

Check ==
  /\ pc = "check"
  /\ IF LoopCondition(ok)
       THEN /\ cycles < MaxCycles
            /\ pc' = "read"
            /\ cycles' = cycles + 1
            /\ seen' = seen_init
            /\ trace' = <<>>
       ELSE /\ pc' = "done"
            /\ UNCHANGED <<cycles, seen, trace>>
  /\ now' = now + 1
  /\ UNCHANGED <<ok, store, locals, outputs, delivered, ver, run, enc_raw>>

\* state_x[0..5] as assigned at the top of the loop body.
AssembleState(imu, ow, wheel) ==
  <<imu.roll, imu.d_roll, (-1) * ow.pitch, (-1) * ow.d_pitch,
    wheel.position, wheel.velocity>>

Read ==
  /\ pc = "read"
  /\ state_x' = AssembleState(orientation_imu_measurement,
                              orientation_ow_measurement, combined_inner_wheel)
  /\ seen' = [seen EXCEPT !.imu = @ \cup {ver["imu"]},
                          !.ow = @ \cup {ver["ow"]},
                          !.enc = @ \cup {ver["enc"]}]
  /\ trace' = Append(trace, "read")
  /\ pc' = "reference"
  /\ now' = now + 1
  /\ UNCHANGED <<ok, store, motor_increment, velocity_lp, target_w, current_stamp,
                 pwm_target, pwm_target_left, pwm_target_right, outputs, cycles,
                 delivered, ver, run, enc_raw>>

\* velocity_cmd.forward * velocity_cmd.forward_gain
ForwardStep(cmd) == cmd.forward * cmd.forward_gain

\* Fault variant: the lower limit is missing.
ClampUpperOnly(t, s) == IF t > s + TwoPi THEN s + TwoPi ELSE t

\* "Limit max delta input": the two if statements, in order.
Clamp(t, s) ==
  LET t1 == IF t > s + TwoPi THEN s + TwoPi ELSE t
  IN  IF t1 < s - TwoPi THEN s - TwoPi ELSE t1

\* Fault variant: the velocity target is integrated like the position target.
UpdateTargetIntegrating(w, x, cmd) ==
  [w EXCEPT ![5] = Clamp(w[5] + ForwardStep(cmd), x[5]), ![6] = w[6] + ForwardStep(cmd)]

\* Fault variant: the indices of the two written elements are one too low.
UpdateTargetShifted(w, x, cmd) ==
  [w EXCEPT ![4] = Clamp(w[4] + ForwardStep(cmd), x[4]), ![5] = ForwardStep(cmd)]

\* target_w after the reference update (index 5 is target_w[4], 6 is target_w[5]).
UpdateTarget(w, x, cmd) ==
  [w EXCEPT ![5] = Clamp(w[5] + ForwardStep(cmd), x[5]), ![6] = ForwardStep(cmd)]

Reference ==
  /\ pc = "reference"
  /\ target_w' = UpdateTarget(target_w, state_x, velocity_cmd)
  /\ seen' = [seen EXCEPT !.cmd = @ \cup {ver["cmd"]},
                          !.forward_gain = @ \cup {velocity_cmd.forward_gain}]
  /\ LET u == velocity_cmd.forward * velocity_cmd.forward_gain
         raw == target_w[5] + u
         free == raw <= state_x[5] + TwoPi /\ raw >= state_x[5] - TwoPi
     IN  run' = IF free /\ run.n > 0 /\ run.u = u
                  THEN [run EXCEPT !.n = @ + 1]
                ELSE IF free THEN [n |-> 1, base |-> target_w[5], u |-> u]
                ELSE [n |-> 0, base |-> target_w'[5], u |-> u]
  /\ trace' = Append(trace, "reference")
  /\ pc' = "control"
  /\ now' = now + 1
  /\ UNCHANGED <<ok, store, motor_increment, velocity_lp, state_x, current_stamp,
                 pwm_target, pwm_target_left, pwm_target_right, outputs, cycles,
                 delivered, ver, enc_raw>>

\* motor_increment = 0; for (i = 0; i < 6; ++i) motor_increment -= ...
RECURSIVE Accumulate(_, _, _, _, _)
Accumulate(acc, x, w, k, i) ==
  IF i > 6 THEN acc
  ELSE Accumulate(acc - (x[i] - w[i]) * k[i], x, w, k, i + 1)

\* Fault variant: the loop starts at the second element.
MotorIncrementSkipFirst(x, w, k) == Accumulate(0, x, w, k, 2)

MotorIncrement(x, w, k) == Accumulate(0, x, w, k, 1)

\* Fault variant: the smoothing weight scaled by the period (1/100 s).
LowPassTimed(lp, v) == lp + RoundDiv((v - lp) * main_loop, Centi)

\* velocity_lp = (velocity_lp + state_x[5]) / 2
LowPass(lp, v) == RoundDiv(lp + v, 2)

\* pwm_target = velocity_lp + motor_increment * main_loop
PwmTarget(lp, increment, period) ==
  lp + RoundDiv(RoundDiv(increment, Centi) * period, Centi)

Control ==
  /\ pc = "control"
  /\ motor_increment' = MotorIncrement(state_x, target_w, control_k)
  /\ velocity_lp' = LowPass(velocity_lp, state_x[6])
  /\ current_stamp' = now
  /\ pwm_target' = PwmTarget(velocity_lp', motor_increment', main_loop)
  /\ seen' = [seen EXCEPT !.period = @ \cup {main_loop}]
  /\ trace' = Append(trace, "control")
  /\ pc' = "shape"
  /\ now' = now + 1
  /\ UNCHANGED <<ok, store, state_x, target_w, pwm_target_left, pwm_target_right,
                 outputs, cycles, delivered, ver, run, enc_raw>>

\* Fault variant: the turn differential added on both sides.
PwmLeftAdded(target, cmd) == target + cmd.turn * cmd.turn_gain

PwmLeft(target, cmd) == target - cmd.turn * cmd.turn_gain
PwmRight(target, cmd) == target + cmd.turn * cmd.turn_gain

Shape ==
  /\ pc = "shape"
  /\ pwm_target_left' = PwmLeft(pwm_target, velocity_cmd)
  /\ pwm_target_right' = PwmRight(pwm_target, velocity_cmd)
  /\ seen' = [seen EXCEPT !.cmd = @ \cup {ver["cmd"]},
                          !.turn_gain = @ \cup {velocity_cmd.turn_gain}]
  /\ trace' = Append(trace, "shape")
  /\ pc' = "pub_balance"
  /\ now' = now + 1
  /\ UNCHANGED <<ok, store, motor_increment, velocity_lp, state_x, target_w,
                 current_stamp, pwm_target, outputs, cycles, delivered, ver, run, enc_raw>>

BalanceMsg(stamp, x, target, left, right) ==
  [stamp |-> stamp,
   roll |-> [setpoint |-> x[1], measurement |-> x[2], increment |-> x[3]],
   velocity |-> [setpoint |-> x[4], measurement |-> x[5], increment |-> x[6]],
   motor |-> target, motor_left |-> left, motor_right |-> right]

PublishBalance ==
  /\ pc = "pub_balance"
  /\ balance_pub' = [n |-> balance_pub.n + 1,
                     msg |-> BalanceMsg(current_stamp, state_x, pwm_target,
                                        pwm_target_left, pwm_target_right)]
  /\ trace' = Append(trace, "pub_balance")
  /\ pc' = "pub_motors"
  /\ now' = now + 1
  /\ UNCHANGED <<ok, store, locals, motors_pub, sleep_arg, cycles, delivered,
                 ver, seen, run, enc_raw>>

\* Fault variant: the second message stamped with a fresh clock reading.
MotorsMsgRestamped(stamp, clock, left, right) ==
  [stamp |-> clock,
   motor1 |-> radToCpr(left * (-1)),
   motor0 |-> radToCpr(right)]

\* The Motors message; clock is the clock reading at publication, which the
\* code does not use: the stamp is the one captured before pwm_target.
MotorsMsg(stamp, clock, left, right) ==
  [stamp |-> stamp,
   motor1 |-> radToCpr(left * (-1)),
   motor0 |-> radToCpr(right)]

PublishMotors ==
  /\ pc = "pub_motors"
  /\ motors_pub' = [n |-> motors_pub.n + 1,
                    msg |-> MotorsMsg(current_stamp, now, pwm_target_left,
                                      pwm_target_right)]
  /\ trace' = Append(trace, "pub_motors")
  /\ pc' = "spin"
  /\ now' = now + 1
  /\ UNCHANGED <<ok, store, locals, balance_pub, sleep_arg, cycles, delivered,
                 ver, seen, run, enc_raw>>

\* rclcpp::spin_some(node) returns once the ready callbacks have run.
SpinReturn ==
  /\ pc = "spin"
  /\ pc' = "sleep"
  /\ now' = now + 1
  /\ UNCHANGED <<ok, store, locals, outputs, cycles, delivered, history>>

\* sleep(unsigned int seconds) called with the float main_loop: the argument is
\* converted by truncation.
SleepSeconds(period) == period \div Centi

Sleep ==
  /\ pc = "sleep"
  /\ sleep_arg' = SleepSeconds(main_loop)
  /\ seen' = [seen EXCEPT !.period = @ \cup {main_loop}]
  /\ trace' = Append(trace, "sleep")
  /\ pc' = "check"
  /\ now' = now + 1
  /\ UNCHANGED <<ok, store, locals, balance_pub, motors_pub, cycles, delivered,
                 ver, run, enc_raw>>

\* The shutdown signal: rclcpp::ok() turns false, at any moment.
Shutdown ==
  /\ ok
  /\ ok' = FALSE
  /\ UNCHANGED <<pc, store, locals, outputs, now, cycles, delivered, history>>

Next ==
  \/ Check
  \/ Read
  \/ Reference
  \/ Control
  \/ Shape
  \/ PublishBalance
  \/ PublishMotors
  \/ joy_topic_callback
  \/ orientation_imu_topic_callback
  \/ orientation_ow_topic_callback
  \/ encoders_topic_callback
  \/ param_change_callback
  \/ SpinReturn
  \/ Sleep
  \/ Shutdown

Spec == Init /\ [][Next]_vars

(***************************************************************************)
(* Properties.                                                             *)
(***************************************************************************)
\* The steps of one loop iteration up to the hand-over to spin_some.
Order == <<"read", "reference", "control", "shape", "pub_balance", "pub_motors">>

\* The running cycle has performed its first n steps and no callback has run
\* since: the store still holds what those steps read.
Fresh(n) == Len(trace) >= n /\ Len(trace) <= Len(Order)

\* C1: when the control scalar is about to be computed, after the cycle's
\* reference update and clamp, target_w[4] lies within 2*pi of state_x[4],
\* both ends included.
C1_ClampWindow ==
  pc = "control" =>
    /\ target_w[5] <= state_x[5] + TwoPi
    /\ target_w[5] >= state_x[5] - TwoPi

\* C1 witness: a stalled robot under a sustained forward command; the target
\* sits exactly on the upper end of the window.
C1_Witness ==
  /\ pc = "control"
  /\ velocity_cmd.forward > 0
  /\ state_x[5] = 0
  /\ target_w[5] = TwoPi

\* C2: within one cycle, every read of an entity sees the same message of
\* that entity (or its initial value): no cycle mixes two updates.
C2_NoTornRead ==
  \A e \in Entities : Cardinality(seen[e]) <= 1

\* C2 witness: a cycle has read both command fields, forward in the reference
\* step and turn in the shaping step, after a Joy message was received.
C2_Witness ==
  /\ pc = "pub_balance"
  /\ ver["cmd"] >= 1
  /\ seen["cmd"] = {ver["cmd"]}
  /\ velocity_cmd.turn # 0
\* The running (or just finished) cycle has executed its sleep.
Slept == Len(trace) > 0 /\ trace[Len(trace)] = "sleep"

\* C3 as stated: in one cycle, from the sensor read through the sleep, every
\* use of forward_gain, of turn_gain and of the period sees one value each.
C3_OneValuePerCycle ==
  /\ Cardinality(seen.forward_gain) <= 1
  /\ Cardinality(seen.turn_gain) <= 1
  /\ Cardinality(seen.period) <= 1

\* C3 amended: the gains are used with one value per cycle, which is the
\* value the store holds when the cycle starts; the period used for pwm_target
\* is that of the cycle's start too, but the sleep ending the cycle runs after
\* the dispatch and uses the period the store holds then.
C3_TakesEffect ==
  /\ Cardinality(seen.forward_gain) <= 1
  /\ Cardinality(seen.turn_gain) <= 1
  /\ ~Slept => Cardinality(seen.period) <= 1
  /\ Fresh(2) => seen.forward_gain = {velocity_cmd.forward_gain}
  /\ Fresh(3) => seen.period = {main_loop}
  /\ Fresh(4) => seen.turn_gain = {velocity_cmd.turn_gain}
  /\ (Slept /\ pc = "check") =>
       /\ main_loop \in seen.period
       /\ sleep_arg = main_loop \div Centi

\* C3 witness: a period change dispatched in a cycle was used by that cycle's
\* own sleep, after pwm_target had been computed with the old period.
C3_Witness ==
  /\ pc = "check"
  /\ Slept
  /\ seen.period = {main_loop_init, main_loop}
  /\ main_loop # main_loop_init
  /\ sleep_arg = 1

\* The gain-weighted error, written out term by term.
WeightedError ==
    control_k[1] * (state_x[1] - target_w[1])
  + control_k[2] * (state_x[2] - target_w[2])
  + control_k[3] * (state_x[3] - target_w[3])
  + control_k[4] * (state_x[4] - target_w[4])
  + control_k[5] * (state_x[5] - target_w[5])
  + control_k[6] * (state_x[6] - target_w[6])

\* C4: the control scalar is the negated gain-weighted sum of the six errors
\* of the state assembled in this cycle against the target after this cycle's
\* update; with all errors zero it is zero, and then, with velocity_lp zero
\* and a zero command, pwm_target and both motor setpoints are zero.
C4_ControlLaw ==
  /\ Fresh(1) =>
       state_x = << orientation_imu_measurement.roll,
                    orientation_imu_measurement.d_roll,
                    0 - orientation_ow_measurement.pitch,
                    0 - orientation_ow_measurement.d_pitch,
                    combined_inner_wheel.position,
                    combined_inner_wheel.velocity >>
  /\ Len(trace) >= 3 =>
       /\ motor_increment = 0 - WeightedError
       /\ state_x = target_w => motor_increment = 0
       /\ (state_x = target_w /\ velocity_lp = 0) => pwm_target = 0
  /\ (Fresh(6) /\ state_x = target_w /\ velocity_lp = 0
        /\ velocity_cmd.forward = 0 /\ velocity_cmd.turn = 0) =>
       /\ motors_pub.msg.motor0 = 0
       /\ motors_pub.msg.motor1 = 0

\* C4 witness: the IMU reports the upright target (roll 0.1415, d_roll 0),
\* everything else is at rest: all six errors are zero and the cycle has
\* published zero setpoints.
C4_Witness ==
  /\ pc = "spin"
  /\ Fresh(6)
  /\ state_x = target_w
  /\ state_x[1] = 1415
  /\ velocity_cmd.forward = 0 /\ velocity_cmd.turn = 0
  /\ motor_increment = 0
  /\ pwm_target = 0
  /\ motors_pub.msg.motor0 = 0

\* C5: a cycle performs read, reference, control, shape, publish Balance,
\* publish Motors, then dispatch, then sleep, in that order; each cycle
\* publishes one Balance and then one Motors message, both with the stamp
\* captured in the control step and both carrying values derived from that
\* cycle's pwm_target.
C5_CycleOrder ==
  /\ \A i \in 1..Len(trace) :
       /\ i <= Len(Order) => trace[i] = Order[i]
       /\ i > Len(Order) => trace[i] \in {"dispatch", "sleep"}
       /\ trace[i] = "sleep" => i = Len(trace)
  /\ balance_pub.n = IF Len(trace) >= 5 THEN cycles
                     ELSE IF cycles = 0 THEN 0 ELSE cycles - 1
  /\ motors_pub.n = IF Len(trace) >= 6 THEN cycles
                    ELSE IF cycles = 0 THEN 0 ELSE cycles - 1
  /\ Len(trace) >= 5 =>
       /\ balance_pub.msg.stamp = current_stamp
       /\ balance_pub.msg.motor = pwm_target
       /\ balance_pub.msg.motor_left + balance_pub.msg.motor_right = 2 * pwm_target
  /\ Len(trace) >= 6 =>
       /\ motors_pub.msg.stamp = balance_pub.msg.stamp
       /\ motors_pub.msg.motor0 = radToCpr(balance_pub.msg.motor_right)
       /\ motors_pub.msg.motor1 = radToCpr(0 - balance_pub.msg.motor_left)

\* C5 witness: a second cycle has run to its end with two callbacks
\* dispatched between its Motors publication and its sleep.
C5_Witness ==
  /\ pc = "check"
  /\ cycles = 2
  /\ Len(trace) = Len(Order) + 3
  /\ balance_pub.n = 2 /\ motors_pub.n = 2
  /\ motors_pub.msg.motor0 # 0
\* The step after each step of the loop body.
Succ ==
  [p \in {"read", "reference", "control", "shape", "pub_balance", "pub_motors",
          "spin", "sleep"} |->
     CASE p = "read" -> "reference"
       [] p = "reference" -> "control"
       [] p = "control" -> "shape"
       [] p = "shape" -> "pub_balance"
       [] p = "pub_balance" -> "pub_motors"
       [] p = "pub_motors" -> "spin"
       [] p = "spin" -> "sleep"
       [] p = "sleep" -> "check"]

CycleStep ==
  Read \/ Reference \/ Control \/ Shape \/ PublishBalance \/ PublishMotors
    \/ SpinReturn \/ Sleep

\* C6: the shutdown flag decides only at the loop condition.  A cycle that
\* has started goes through all its steps whatever the flag does meanwhile;
\* the loop ends only from the loop condition with the flag down, and then
\* nothing more is published; with the flag up the loop condition starts the
\* next cycle, and the loop is never found terminated while the flag is up.
C6_Shutdown ==
  /\ [][ /\ (pc' = "done" /\ pc # "done") => (pc = "check" /\ ~ok)
         /\ (pc = "check" /\ ~ok /\ pc' # pc) => pc' = "done"
         /\ (pc = "check" /\ ok /\ pc' # pc) => pc' = "read"
         /\ (pc \notin {"check", "done"} /\ pc' # pc) => pc' = Succ[pc]
         /\ pc = "done" => UNCHANGED <<pc, outputs>> ]_vars
  /\ [](pc = "done" => ~ok)
  /\ [](pc \notin {"check", "done"} => ENABLED CycleStep)

\* C6 witness: the flag went down inside the second cycle, which is still
\* running and has just published its Balance message.
C6_Witness ==
  /\ ~ok
  /\ pc = "pub_motors"
  /\ cycles = 2
  /\ balance_pub.n = 2
  /\ motors_pub.n = 1

\* C7: target_w[5] is the current forward * forward_gain, not accumulated;
\* target_w[4] is increased by it before the clamp, so over a run of n cycles
\* with one and the same increment u in which the clamp does not bind it has
\* grown by n * u; when the clamp binds it sits on an end of the window.
C7_Reference ==
  /\ Fresh(2) =>
       /\ target_w[6] = velocity_cmd.forward * velocity_cmd.forward_gain
       /\ (velocity_cmd.forward = 100 /\ velocity_cmd.forward_gain = 5) =>
            target_w[6] = 500
  /\ Len(trace) >= 2 =>
       /\ target_w[6] = run.u
       /\ run.n > 0 => target_w[5] = run.base + run.n * run.u
       /\ run.n = 0 => target_w[5] \in {state_x[5] + TwoPi, state_x[5] - TwoPi}

\* C7 witness: two cycles in a row with forward = 1 and forward_gain = 0.05
\* from rest: the position target is 0.10, the velocity target still 0.05.
C7_Witness ==
  /\ Fresh(2)
  /\ velocity_cmd.forward = 100 /\ velocity_cmd.forward_gain = 5
  /\ run = [n |-> 2, base |-> 0, u |-> 500]
  /\ target_w[5] = 1000
  /\ target_w[6] = 500

\* C8: pwm_left and pwm_right are pwm_target minus and plus turn * turn_gain;
\* the published setpoints are radToCpr of the negated left value and of the
\* right value, unlimited; with turn = 0 both equal pwm_target, and with
\* turn = 1 and turn_gain = 3 they are pwm_target - 3 and pwm_target + 3.
C8_OutputShaper ==
  /\ Fresh(4) =>
       /\ pwm_target_left = pwm_target - velocity_cmd.turn * velocity_cmd.turn_gain
       /\ pwm_target_right = pwm_target + velocity_cmd.turn * velocity_cmd.turn_gain
       /\ velocity_cmd.turn = 0 =>
            (pwm_target_left = pwm_target /\ pwm_target_right = pwm_target)
       /\ (velocity_cmd.turn = 100 /\ velocity_cmd.turn_gain = 300) =>
            /\ pwm_target_left = pwm_target - 3 * RadUnit
            /\ pwm_target_right = pwm_target + 3 * RadUnit
  /\ Fresh(6) =>
       /\ motors_pub.msg.motor1 =
            radToCpr(0 - (pwm_target - velocity_cmd.turn * velocity_cmd.turn_gain))
       /\ motors_pub.msg.motor0 =
            radToCpr(pwm_target + velocity_cmd.turn * velocity_cmd.turn_gain)

\* C8 witness: a cycle with turn = 1 and turn_gain = 3 has published setpoints
\* six radians per second apart.
C8_Witness ==
  /\ pc = "spin"
  /\ Fresh(6)
  /\ velocity_cmd.turn = 100 /\ velocity_cmd.turn_gain = 300
  /\ pwm_target_right - pwm_target_left = 6 * RadUnit
  /\ motors_pub.msg.motor0 # 0 - motors_pub.msg.motor1

\* ticks * TwoPi / CPR = rad, up to the rounding of the stored value.
IsRadOf(rad, ticks) == Abs(rad * CPR - ticks * TwoPi) <= CPR \div 2

\* C9: in every state the combined wheel position is the stored right
\* position and the combined velocity is the mean of the stored left and
\* right velocities; the stored values are the conversions of the last raw
\* message, the left channel negated (raw -8192 and 8192 give 2*pi, 2*pi and
\* a combined 2*pi); nothing but an Encoders message changes them.
C9_CombinedWheel ==
  /\ combined_inner_wheel.position = encoders_measurement.position_right
  /\ Abs(2 * combined_inner_wheel.velocity
         - (encoders_measurement.velocity_left + encoders_measurement.velocity_right)) <= 1
  /\ IsRadOf(encoders_measurement.position_left, 0 - enc_raw.encoder1.position)
  /\ IsRadOf(encoders_measurement.velocity_left, 0 - enc_raw.encoder1.velocity)
  /\ IsRadOf(encoders_measurement.position_right, enc_raw.encoder0.position)
  /\ IsRadOf(encoders_measurement.velocity_right, enc_raw.encoder0.velocity)
  /\ (enc_raw.encoder1.velocity = 0 - CPR /\ enc_raw.encoder0.velocity = CPR) =>
       /\ encoders_measurement.velocity_left = TwoPi
       /\ encoders_measurement.velocity_right = TwoPi
       /\ combined_inner_wheel.velocity = TwoPi
  /\ (ver["enc"] = 0) =>
       (combined_inner_wheel = inner_wheel_init /\ enc_raw = encoders_msg_zero)

\* C9 witness: raw velocities -8192 (left) and 8192 (right) were received and
\* the next cycle has read a combined velocity of 2*pi.
C9_Witness ==
  /\ pc = "reference"
  /\ enc_raw.encoder1.velocity = 0 - CPR
  /\ enc_raw.encoder0.velocity = CPR
  /\ combined_inner_wheel.velocity = TwoPi
  /\ state_x[6] = TwoPi

\* C10 as stated: what a cycle reads of an entity that has not yet received
\* a message is zero.
C10_ZeroBeforeFirstMessage ==
  /\ Fresh(1) =>
       /\ ver["imu"] = 0 => (state_x[1] = 0 /\ state_x[2] = 0)
       /\ ver["ow"] = 0 => (state_x[3] = 0 /\ state_x[4] = 0)
       /\ ver["enc"] = 0 => (state_x[5] = 0 /\ state_x[6] = 0)
  /\ ver["cmd"] = 0 => (velocity_cmd.forward = 0 /\ velocity_cmd.turn = 0)

\* C11 as stated: the duration handed to sleep() at the end of a cycle is the
\* configured period, the quantity that entered pwm_target (sleep_arg is in
\* seconds, main_loop in 1/100 s).
C11_SleepsForPeriod ==
  (Slept /\ pc = "check") => sleep_arg * Centi = main_loop

\* C12: velocity_lp is 0 before the first cycle and changes only in the
\* control step, once per cycle, to (velocity_lp + state_x[5]) / 2 whatever
\* the period is: the distance to state_x[5] is halved (to the rounding of the
\* last digit, and exactly when the sum is even), it never grows, and a
\* velocity_lp equal to state_x[5] stays where it is.
C12_LowPass ==
  /\ [](cycles = 0 => velocity_lp = 0)
  /\ [][ /\ velocity_lp' # velocity_lp => (pc = "control" /\ pc' = "shape")
         /\ (pc = "control" /\ pc' = "shape") =>
              /\ Abs(2 * velocity_lp' - (velocity_lp + state_x[6])) <= 1
              /\ (velocity_lp + state_x[6]) % 2 = 0 =>
                   2 * (velocity_lp' - state_x[6]) = velocity_lp - state_x[6]
              /\ Abs(velocity_lp' - state_x[6]) <= Abs(velocity_lp - state_x[6])
              /\ velocity_lp = state_x[6] => velocity_lp' = state_x[6] ]_vars

\* C12 witness: the wheel velocity has been 2*pi for two cycles; velocity_lp
\* went 0, pi, 3*pi/2 while the period was changed in between.
C12_Witness ==
  /\ pc = "shape"
  /\ state_x[6] = TwoPi
  /\ velocity_lp = 47124
  /\ main_loop # main_loop_init

\* C13: target_w[0..3] are 0.1415, 0, 0, 0 in every state; of the data that
\* outlives a cycle, the steps of the loop write only state_x, target_w[4],
\* target_w[5], motor_increment and velocity_lp, each in its own step; and the
\* sensor entities, the combined wheel state, the command gains and the
\* period change only while a callback is dispatched.
C13_CycleFrame ==
  /\ [](SubSeq(target_w, 1, 4) = <<1415, 0, 0, 0>> /\ Len(target_w) = 6)
  /\ [][ /\ store' # store => (pc = "spin" /\ pc' = "spin" /\ delivered' = delivered + 1)
         /\ state_x' # state_x => pc = "read"
         /\ target_w' # target_w => pc = "reference"
         /\ (motor_increment' # motor_increment \/ velocity_lp' # velocity_lp) =>
              pc = "control" ]_vars

\* C13 witness: two cycles have run under a forward command and a moving
\* wheel; both written targets, the state and velocity_lp have changed and
\* the first target element is still 0.1415.
C13_Witness ==
  /\ pc = "check"
  /\ cycles >= 2
  /\ target_w[1] = 1415
  /\ target_w[5] # 0
  /\ target_w[6] # 0
  /\ state_x[6] # 0
  /\ velocity_lp # 0
  /\ motor_increment # 0

\* The value a parameter list leaves in a setting: that of the last entry
\* named key, or the old value when no entry has that name.
RECURSIVE LastValue(_, _, _)
LastValue(changed_parameters, key, old) ==
  IF changed_parameters = <<>> THEN old
  ELSE LastValue(Tail(changed_parameters), key,
                 IF Head(changed_parameters).name = key
                   THEN Head(changed_parameters).value ELSE old)

\* C14: a dispatched callback writes its own entity and nothing else.  A Joy
\* message changes only forward and turn; an orientation message only the
\* sample of its own source; an Encoders message only the encoder pair and
\* the combined wheel state; a parameter event only forward_gain, turn_gain
\* and the period, each to the value of the entry with its key, entries with
\* another key changing nothing; no callback changes target_w, state_x,
\* motor_increment or velocity_lp.
C14_HandlerFrame ==
  [][ delivered' # delivered =>
        /\ UNCHANGED <<target_w, state_x, motor_increment, velocity_lp>>
        /\ ver'["cmd"] # ver["cmd"] =>
             /\ velocity_cmd'.forward_gain = velocity_cmd.forward_gain
             /\ velocity_cmd'.turn_gain = velocity_cmd.turn_gain
             /\ UNCHANGED <<orientation_imu_measurement, orientation_ow_measurement,
                            encoders_measurement, combined_inner_wheel, main_loop>>
        /\ ver'["imu"] # ver["imu"] =>
             UNCHANGED <<velocity_cmd, orientation_ow_measurement,
                         encoders_measurement, combined_inner_wheel, main_loop>>
        /\ ver'["ow"] # ver["ow"] =>
             UNCHANGED <<velocity_cmd, orientation_imu_measurement,
                         encoders_measurement, combined_inner_wheel, main_loop>>
        /\ ver'["enc"] # ver["enc"] =>
             UNCHANGED <<velocity_cmd, orientation_imu_measurement,
                         orientation_ow_measurement, main_loop>>
        /\ ver' = ver =>
             /\ UNCHANGED <<orientation_imu_measurement, orientation_ow_measurement,
                            encoders_measurement, combined_inner_wheel>>
             /\ velocity_cmd'.forward = velocity_cmd.forward
             /\ velocity_cmd'.turn = velocity_cmd.turn
             /\ \E event \in ParameterEvents :
                  /\ velocity_cmd'.forward_gain =
                       LastValue(event, "vel_cmd.forward_gain", velocity_cmd.forward_gain)
                  /\ velocity_cmd'.turn_gain =
                       LastValue(event, "vel_cmd.turn_gain", velocity_cmd.turn_gain)
                  /\ main_loop' = LastValue(event, "main_loop", main_loop) ]_vars

\* C14 witness: one Joy message, one Encoders message and the parameter event
\* with a foreign key and main_loop = 2.5 have been dispatched: the command
\* axes, the wheel state and the period changed, the gains did not.
C14_Witness ==
  /\ pc = "spin"
  /\ ver["cmd"] = 1 /\ ver["enc"] = 1 /\ delivered = 3
  /\ velocity_cmd.turn = 100
  /\ velocity_cmd.forward_gain = 5 /\ velocity_cmd.turn_gain = 300
  /\ combined_inner_wheel.velocity = TwoPi
  /\ main_loop = 250
  /\ orientation_imu_measurement = orientation_init

\* C15: callbacks are dispatched only in the spin_some step, after the six
\* compute-and-publish steps of the cycle; so what the cycle read, computed
\* and published all comes from the store as the previous dispatch left it:
\* until the cycle's own dispatch begins, the state vector, the velocity
\* target, the turn differential, the period in pwm_target and both
\* published messages agree with the store, and of every entity the cycle
\* has seen exactly the last message delivered.
C15_SnapshotPerCycle ==
  /\ \A i \in 1..Len(trace) : trace[i] = "dispatch" => i > Len(Order)
  /\ \A e \in Entities : \A v \in seen[e] : Fresh(1) => v = ver[e]
  /\ Fresh(1) =>
       /\ seen["imu"] = {ver["imu"]}
       /\ seen["ow"] = {ver["ow"]}
       /\ seen["enc"] = {ver["enc"]}
       /\ state_x[1] = orientation_imu_measurement.roll
       /\ state_x[2] = orientation_imu_measurement.d_roll
       /\ state_x[3] = 0 - orientation_ow_measurement.pitch
       /\ state_x[4] = 0 - orientation_ow_measurement.d_pitch
       /\ state_x[5] = encoders_measurement.position_right
       /\ 2 * state_x[6] - (encoders_measurement.velocity_left
                            + encoders_measurement.velocity_right) \in {-1, 0, 1}
  /\ Fresh(2) =>
       /\ seen["cmd"] = {ver["cmd"]}
       /\ target_w[6] = velocity_cmd.forward * velocity_cmd.forward_gain
  /\ Fresh(3) =>
       Abs(Centi * (pwm_target - velocity_lp)
           - RoundDiv(motor_increment, Centi) * main_loop) <= Centi \div 2
  /\ Fresh(4) =>
       pwm_target_right - pwm_target_left
         = 2 * velocity_cmd.turn * velocity_cmd.turn_gain
  /\ Fresh(5) =>
       /\ balance_pub.msg.roll.setpoint = orientation_imu_measurement.roll
       /\ balance_pub.msg.velocity.measurement = combined_inner_wheel.position
       /\ balance_pub.msg.motor_right - balance_pub.msg.motor
            = velocity_cmd.turn * velocity_cmd.turn_gain
  /\ Fresh(6) =>
       /\ motors_pub.msg.stamp = current_stamp
       /\ motors_pub.msg.motor0 =
            radToCpr(pwm_target + velocity_cmd.turn * velocity_cmd.turn_gain)

\* C15 witness: two IMU messages and a Joy message were dispatched in the
\* first cycle's spin_some; the second cycle has read the later IMU message
\* only, and has published.
C15_Witness ==
  /\ pc = "spin"
  /\ Fresh(6)
  /\ cycles = 2
  /\ ver["imu"] = 2 /\ ver["cmd"] = 1
  /\ seen["imu"] = {2}
  /\ state_x[1] = -300
  /\ motors_pub.n = 2
====
